---- MODULE Spec2Model ----
(***************************************************************************)
(* Model of src/app.py: the Upbit REST/WebSocket client.  The state is one *)
(* UpbitClient instance (credential pair, enable_trading), the process     *)
(* environment it was constructed from, the random source behind           *)
(* uuid.uuid4, and a record of what each call did: the primitive steps it  *)
(* executed, the header it returned and the request it put on the wire.    *)
(*                                                                         *)
(* Strings that are canonicalised are sequences of one-character strings,  *)
(* so that urlencode/quote_plus are modelled by what they do to the text.  *)
(* hashlib.sha512 and jwt.encode are modelled as collision-free tagged     *)
(* values: equal outputs exactly for equal inputs.                         *)
(***************************************************************************)
EXTENDS Integers, Sequences, FiniteSets, TLC

VARIABLES
    access_key,      \* self.access_key
    secret_key,      \* self.secret_key
    enable_trading,  \* self.enable_trading
    env,             \* the process: os.environ's two variables, the websocket import
    rng,             \* number of uuid4 values drawn so far
    calls,           \* number of client calls made so far
    issued,          \* what _jwt_headers returned so far, in call order
    last,            \* what the latest call did
    threads          \* the calls in progress on concurrent threads, by thread

vars == <<access_key, secret_key, enable_trading, env, rng, calls, issued, last,
          threads>>

(***************************************************************************)
(* Bounds of the model.                                                    *)
(***************************************************************************)
\* number of client calls in one behaviour
MaxCalls == 2
\* length of a generated sequence value
MaxSeqLen == 2

(***************************************************************************)
(* Text.                                                                   *)
(***************************************************************************)
\* code point of a character (str comparison in sorted() is by code point)
Code(c) ==
    CASE c = " " -> 32 [] c = "%" -> 37 [] c = "&" -> 38 [] c = "+" -> 43
      [] c = "-" -> 45 [] c = "0" -> 48 [] c = "1" -> 49 [] c = "2" -> 50
      [] c = "3" -> 51 [] c = "4" -> 52 [] c = "5" -> 53 [] c = "6" -> 54
      [] c = "7" -> 55 [] c = "8" -> 56 [] c = "9" -> 57 [] c = "=" -> 61
      [] c = "B" -> 66 [] c = "C" -> 67 [] c = "D" -> 68 [] c = "K" -> 75
      [] c = "R" -> 82 [] c = "T" -> 84 [] c = "W" -> 87 [] c = "_" -> 95
      [] c = "a" -> 97 [] c = "b" -> 98 [] c = "c" -> 99 [] c = "d" -> 100
      [] c = "e" -> 101 [] c = "f" -> 102 [] c = "g" -> 103 [] c = "h" -> 104
      [] c = "i" -> 105 [] c = "k" -> 107 [] c = "l" -> 108 [] c = "m" -> 109
      [] c = "n" -> 110 [] c = "o" -> 111 [] c = "p" -> 112 [] c = "r" -> 114
      [] c = "s" -> 115 [] c = "t" -> 116 [] c = "u" -> 117 [] c = "v" -> 118
      [] c = "w" -> 119 [] c = "x" -> 120 [] c = "y" -> 121

\* s < t for two strings, as Python compares str
RECURSIVE StrLess(_, _)
StrLess(s, t) ==
    IF t = <<>> THEN FALSE
    ELSE IF s = <<>> THEN TRUE
    ELSE IF Head(s) = Head(t) THEN StrLess(Tail(s), Tail(t))
    ELSE Code(Head(s)) < Code(Head(t))

Digit(d) ==
    CASE d = 0 -> "0" [] d = 1 -> "1" [] d = 2 -> "2" [] d = 3 -> "3"
      [] d = 4 -> "4" [] d = 5 -> "5" [] d = 6 -> "6" [] d = 7 -> "7"
      [] d = 8 -> "8" [] d = 9 -> "9"

\* str(n) of a non-negative int
RECURSIVE IntStr(_)
IntStr(n) == IF n < 10 THEN <<Digit(n)>> ELSE IntStr(n \div 10) \o <<Digit(n % 10)>>

RECURSIVE Concat(_)
Concat(ss) == IF ss = <<>> THEN <<>> ELSE Head(ss) \o Concat(Tail(ss))

\* sep.join(parts)
RECURSIVE Join(_, _)
Join(parts, sep) ==
    IF parts = <<>> THEN <<>>
    ELSE IF Len(parts) = 1 THEN Head(parts)
    ELSE Head(parts) \o sep \o Join(Tail(parts), sep)

(***************************************************************************)
(* Parameter values and mappings.  A value is a str, an int, a list of     *)
(* str, or a nested dict; every value is a record of one shape.  A dict is *)
(* the sequence of its items in insertion order, keys distinct.            *)
(***************************************************************************)
StrV(s) == [kind |-> "str", s |-> s, n |-> 0, items |-> <<>>, inner |-> <<>>]
IntV(n) == [kind |-> "int", s |-> <<>>, n |-> n, items |-> <<>>, inner |-> <<>>]
ListV(xs) == [kind |-> "list", s |-> <<>>, n |-> 0, items |-> xs, inner |-> <<>>]
\* a nested dict with keys ks and (string) values vs
DictV(ks, vs) == [kind |-> "dict", s |-> <<>>, n |-> 0, items |-> ks, inner |-> vs]
\* None passed for an optional argument
NoneV == [kind |-> "none", s |-> <<>>, n |-> 0, items |-> <<>>, inner |-> <<>>]

\* bool(v) of an argument, as in "if uuid:"
TruthyArg(v) ==
    CASE v.kind = "none" -> FALSE
      [] v.kind = "str" -> v.s # <<>>
      [] v.kind = "int" -> v.n # 0
      [] v.kind = "list" -> v.items # <<>>
      [] v.kind = "dict" -> v.items # <<>>

Item(k, v) == [k |-> k, v |-> v]

\* Optional[Dict]: None, or a dict
NoneParams == [isNone |-> TRUE, items |-> <<>>]
Dict(items) == [isNone |-> FALSE, items |-> items]

\* bool(params), as in "if params:" and "params or {}"
Truthy(params) == ~params.isNone /\ params.items # <<>>
OrEmpty(params) == IF Truthy(params) THEN params ELSE Dict(<<>>)

(***************************************************************************)
(* Canonical query string: urlencode(sorted(_flatten(params).items()),     *)
(* doseq=True).                                                            *)
(***************************************************************************)
\* UpbitClient._flatten: returns its argument
Flatten(d) == d

\* the items left in insertion order
SortedItemsAsGiven(items) == items

\* insert one item into a list of items sorted by key
RECURSIVE SortedInsert(_, _)
SortedInsert(it, sorted) ==
    IF sorted = <<>> THEN <<it>>
    ELSE IF StrLess(it.k, Head(sorted).k) THEN <<it>> \o sorted
    ELSE <<Head(sorted)>> \o SortedInsert(it, Tail(sorted))

\* sorted(d.items()): keys are distinct, so the order is the order of the keys
RECURSIVE SortedItems(_)
SortedItems(items) ==
    IF items = <<>> THEN <<>>
    ELSE SortedInsert(items[Len(items)], SortedItems(SubSeq(items, 1, Len(items) - 1)))

\* urllib.parse.quote_plus of one character
QuoteChar(c) ==
    CASE c = " " -> <<"+">>
      [] c = "%" -> <<"%", "2", "5">>
      [] c = "&" -> <<"%", "2", "6">>
      [] c = "+" -> <<"%", "2", "B">>
      [] c = "," -> <<"%", "2", "C">>
      [] c = "=" -> <<"%", "3", "D">>
      [] OTHER -> <<c>>

\* no escaping at all
QuotePlusNothing(s) == s

\* urllib.parse.quote_plus
QuotePlus(s) == Concat([i \in 1..Len(s) |-> QuoteChar(s[i])])

\* a list sent as one comma-joined value
ElementsCommaJoined(v) ==
    CASE v.kind = "str" -> <<v.s>>
      [] v.kind = "int" -> <<IntStr(v.n)>>
      [] v.kind = "list" -> <<Join(v.items, <<",">>)>>
      [] v.kind = "dict" -> v.items

\* what urlencode(doseq=True) emits for one value: a str as itself, a value
\* without len() as str(v), anything with len() element by element (a dict
\* iterates over its keys)
Elements(v) ==
    CASE v.kind = "str" -> <<v.s>>
      [] v.kind = "int" -> <<IntStr(v.n)>>
      [] v.kind = "list" -> v.items
      [] v.kind = "dict" -> v.items

\* the key=value pieces urlencode emits for one item
Pieces(it) ==
    LET es == Elements(it.v)
    IN [i \in 1..Len(es) |-> QuotePlus(it.k) \o <<"=">> \o QuotePlus(es[i])]

\* urllib.parse.urlencode(query, doseq=True)
UrlEncode(query) ==
    Join(Concat([i \in 1..Len(query) |-> Pieces(query[i])]), <<"&">>)

\* line 104: the canonical query string of a dict
QueryString(params) == UrlEncode(SortedItems(Flatten(params).items))

\* hashlib.sha512(q.encode()).hexdigest(), collision-free
Sha512(q) == [alg |-> "sha512", of |-> q]

\* dict.update
Update(d, e) == e @@ d

(***************************************************************************)
(* Credentials.                                                            *)
(***************************************************************************)
\* Python's None for an Optional[str]
None == "<None>"
\* "not x" for an Optional[str]
Falsy(x) == x = None \/ x = ""
\* "a or b"
Or(a, b) == IF Falsy(a) THEN b ELSE a

(***************************************************************************)
(* UpbitClient._jwt_headers.  The outcome of a call: whether it returned,  *)
(* the exception otherwise, the primitive steps executed in order, the     *)
(* claims (payload), the token, and the random source after the call.      *)
(***************************************************************************)
MissingCredentials == "RuntimeError: access_key/secret_key"

\* a nonce drawn once and kept
Uuid4Cached(r) == [uuid |-> 1]

\* str(uuid.uuid4()): the r-th draw of the random source, never drawn before
Uuid4(r) == [uuid |-> r + 1]

\* jwt.encode(payload, key, algorithm="HS256")
JwtEncode(payload, key) == [alg |-> "HS256", key |-> key, payload |-> payload]

NoPayload == [x \in {} |-> ""]
NoToken == [alg |-> "none"]

\* the guard with the secret key forgotten
CredentialsMissingAccessOnly == Falsy(access_key)

\* line 94: the guard of _jwt_headers
CredentialsMissing == Falsy(access_key) \/ Falsy(secret_key)

\* hashing whenever a dict is passed, empty or not
HashesQueryWhenGiven(params) == ~params.isNone

\* line 101: "if params:"
HashesQuery(params) == Truthy(params)

JwtHeaders(params, r) ==
    IF CredentialsMissing
    THEN [ok |-> FALSE, err |-> MissingCredentials, trace |-> <<"_jwt_headers">>,
          payload |-> NoPayload, token |-> NoToken, rng |-> r]
    ELSE LET base == ("access_key" :> access_key) @@ ("nonce" :> Uuid4(r))
             q == QueryString(params)
             payload == IF HashesQuery(params)
                        THEN Update(base, ("query_hash" :> Sha512(q))
                                          @@ ("query_hash_alg" :> "SHA512"))
                        ELSE base
             steps == IF HashesQuery(params)
                      THEN <<"_jwt_headers", "uuid4", "urlencode", "sha512", "jwt.encode">>
                      ELSE <<"_jwt_headers", "uuid4", "jwt.encode">>
         IN [ok |-> TRUE, err |-> "", trace |-> steps, payload |-> payload,
             token |-> JwtEncode(payload, secret_key), rng |-> r + 1]

(***************************************************************************)
(* UpbitClient._request.  resp is what the transport does with the call:   *)
(* raise requests.RequestException, answer with status >= 400, or answer   *)
(* with a success status.                                                  *)
(***************************************************************************)
Responses == {"RequestException", "status>=400", "status<400"}

\* the part of a call's outcome that is about signing
NoSig == [called |-> FALSE, ok |-> FALSE, params |-> NoneParams,
          payload |-> NoPayload, token |-> NoToken]
Sig(params, h) == [called |-> TRUE, ok |-> h.ok, params |-> params,
                   payload |-> h.payload, token |-> h.token]

\* the part of a call's outcome that is about the wire: the arguments of
\* session.request (via is the keyword the mapping is passed under)
NoWire == [sent |-> FALSE, method |-> "", via |-> "", params |-> NoneParams,
           auth |-> NoToken, contentType |-> ""]
Wire(method, via, params, auth, ct) ==
    [sent |-> TRUE, method |-> method, via |-> via, params |-> params,
     auth |-> auth, contentType |-> ct]

Outcome(result, trace, sig, wire, r) ==
    [result |-> result, trace |-> trace, sig |-> sig, wire |-> wire, rng |-> r]

\* lines 135-149: the call of session.request for signed-or-not headers
Transport(method, params, send_json_for_post, auth) ==
    IF method \in {"GET", "DELETE"}
    THEN Wire(method, "params", params, auth, "")
    ELSE IF send_json_for_post
         THEN Wire(method, "json", OrEmpty(params), auth, "application/json")
         ELSE Wire(method, "data", OrEmpty(params), auth, "")

\* lines 150-165: what the caller of _request gets for a transport outcome
Answer(resp) ==
    CASE resp = "RequestException" -> "RuntimeError: HTTP"
      [] resp = "status>=400" -> "UpbitAPIError"
      [] resp = "status<400" -> "return"

\* signing without the parameters
SignedMappingEmpty(params) == Dict(<<>>)

\* lines 130-131: the mapping _request hands to _jwt_headers
SignedMapping(params) == OrEmpty(params)

\* _request going on to the transport, unsigned, when signing failed
RequestSendsUnsigned(method, params, private, send_json_for_post, resp, r) ==
    LET h == JwtHeaders(SignedMapping(params), r)
        sig == IF private THEN Sig(SignedMapping(params), h) ELSE NoSig
        pre == IF private THEN h.trace ELSE <<>>
        auth == IF private THEN h.token ELSE NoToken
    IN Outcome(Answer(resp), pre \o <<"session.request">>, sig,
               Transport(method, params, send_json_for_post, auth),
               IF private THEN h.rng ELSE r)

Request(method, params, private, send_json_for_post, resp, r) ==
    LET h == JwtHeaders(SignedMapping(params), r)
    IN IF private /\ ~h.ok
       THEN Outcome(h.err, h.trace, Sig(SignedMapping(params), h), NoWire, h.rng)
       ELSE LET sig == IF private THEN Sig(SignedMapping(params), h) ELSE NoSig
                pre == IF private THEN h.trace ELSE <<>>
                auth == IF private THEN h.token ELSE NoToken
            IN Outcome(Answer(resp), pre \o <<"session.request">>, sig,
                       Transport(method, params, send_json_for_post, auth),
                       IF private THEN h.rng ELSE r)

\* an exception raised by a wrapper before it reaches _request
Raised(err, r) == Outcome(err, <<>>, NoSig, NoWire, r)

(***************************************************************************)
(* The texts the calls below are made with.                                *)
(***************************************************************************)
s_market == <<"m", "a", "r", "k", "e", "t">>
s_side == <<"s", "i", "d", "e">>
s_ord_type == <<"o", "r", "d", "_", "t", "y", "p", "e">>
s_volume == <<"v", "o", "l", "u", "m", "e">>
s_price == <<"p", "r", "i", "c", "e">>
s_identifier == <<"i", "d", "e", "n", "t", "i", "f", "i", "e", "r">>
s_time_in_force == <<"t", "i", "m", "e", "_", "i", "n", "_", "f", "o", "r", "c", "e">>
s_smp_type == <<"s", "m", "p", "_", "t", "y", "p", "e">>
s_uuid == <<"u", "u", "i", "d">>
s_uuids == <<"u", "u", "i", "d", "s">>
s_identifiers == <<"i", "d", "e", "n", "t", "i", "f", "i", "e", "r", "s">>
s_count == <<"c", "o", "u", "n", "t">>
s_order_by == <<"o", "r", "d", "e", "r", "_", "b", "y">>
s_currency == <<"c", "u", "r", "r", "e", "n", "c", "y">>
s_amount == <<"a", "m", "o", "u", "n", "t">>
s_address == <<"a", "d", "d", "r", "e", "s", "s">>
s_net_type == <<"n", "e", "t", "_", "t", "y", "p", "e">>
s_secondary_address ==
    <<"s", "e", "c", "o", "n", "d", "a", "r", "y", "_", "a", "d", "d", "r", "e", "s", "s">>
s_KRW_BTC == <<"K", "R", "W", "-", "B", "T", "C">>
s_BTC == <<"B", "T", "C">>
s_bid == <<"b", "i", "d">>
s_limit == <<"l", "i", "m", "i", "t">>
s_desc == <<"d", "e", "s", "c">>
s_u1 == <<"u", "1">>
s_u2 == <<"u", "2">>
s_a == <<"a">>
s_b == <<"b">>
s_x == <<"x">>
s_1 == <<"1">>
s_2 == <<"2">>

\* str(v) of a str or a number, as a parameter value
StrOf(v) == IF v.kind = "int" THEN StrV(IntStr(v.n)) ELSE StrV(v.s)

\* "if cond: params[k] = v"
AddIf(cond, items, k, v) == IF cond THEN Append(items, Item(k, v)) ELSE items

(***************************************************************************)
(* The guarded wrappers: lines 252-292 and 330-365.                        *)
(***************************************************************************)
PermissionDenied == "PermissionError"

place_order(market, side, ord_type, volume, price, identifier, time_in_force, smp_type, resp, r) ==
    IF ~enable_trading THEN Raised(PermissionDenied, r)
    ELSE LET p0 == <<Item(s_market, market), Item(s_side, side),
                     Item(s_ord_type, ord_type)>>
             p1 == AddIf(volume.kind # "none", p0, s_volume, StrOf(volume))
             p2 == AddIf(price.kind # "none", p1, s_price, StrOf(price))
             p3 == AddIf(TruthyArg(identifier), p2, s_identifier, identifier)
             p4 == AddIf(TruthyArg(time_in_force), p3, s_time_in_force, time_in_force)
             p5 == AddIf(TruthyArg(smp_type), p4, s_smp_type, smp_type)
         IN Request("POST", Dict(p5), TRUE, TRUE, resp, r)

\* cancel_order validating its arguments before it looks at enable_trading
cancel_orderValidatesFirst(uuid, identifier, resp, r) ==
    IF ~TruthyArg(uuid) /\ ~TruthyArg(identifier) THEN Raised("ValueError", r)
    ELSE IF ~enable_trading THEN Raised(PermissionDenied, r)
    ELSE LET p1 == AddIf(TruthyArg(uuid), <<>>, s_uuid, uuid)
             p2 == AddIf(TruthyArg(identifier), p1, s_identifier, identifier)
         IN Request("DELETE", Dict(p2), TRUE, TRUE, resp, r)

cancel_order(uuid, identifier, resp, r) ==
    IF ~enable_trading THEN Raised(PermissionDenied, r)
    ELSE IF ~TruthyArg(uuid) /\ ~TruthyArg(identifier) THEN Raised("ValueError", r)
    ELSE LET p1 == AddIf(TruthyArg(uuid), <<>>, s_uuid, uuid)
             p2 == AddIf(TruthyArg(identifier), p1, s_identifier, identifier)
         IN Request("DELETE", Dict(p2), TRUE, TRUE, resp, r)

cancel_orders_batch(market, count, order_by, resp, r) ==
    IF ~enable_trading THEN Raised(PermissionDenied, r)
    ELSE Request("DELETE",
                 Dict(<<Item(s_market, market), Item(s_count, count),
                        Item(s_order_by, order_by)>>),
                 TRUE, TRUE, resp, r)

cancel_orders_list(market, uuids, identifiers, resp, r) ==
    IF ~enable_trading THEN Raised(PermissionDenied, r)
    ELSE LET p0 == <<Item(s_market, market)>>
             p1 == AddIf(TruthyArg(uuids), p0, s_uuids, uuids)
             p2 == AddIf(TruthyArg(identifiers), p1, s_identifiers, identifiers)
         IN Request("DELETE", Dict(p2), TRUE, TRUE, resp, r)

withdraw(currency, amount, address, net_type, secondary_address, resp, r) ==
    IF ~enable_trading THEN Raised(PermissionDenied, r)
    ELSE LET p0 == <<Item(s_currency, currency), Item(s_amount, StrOf(amount)),
                     Item(s_address, address)>>
             p1 == AddIf(TruthyArg(net_type), p0, s_net_type, net_type)
             p2 == AddIf(TruthyArg(secondary_address), p1, s_secondary_address,
                         secondary_address)
         IN Request("POST", Dict(p2), TRUE, TRUE, resp, r)

withdraw_krw(amount, resp, r) ==
    IF ~enable_trading THEN Raised(PermissionDenied, r)
    ELSE Request("POST", Dict(<<Item(s_amount, StrOf(amount))>>), TRUE, TRUE, resp, r)

(***************************************************************************)
(* WebSocket helpers: lines 409-415 and 449-455.                           *)
(***************************************************************************)
\* _WS.__init__
NewWS(trace, sig, r) ==
    IF ~env.websocket
    THEN Outcome("RuntimeError: websocket-client", trace, sig, NoWire, r)
    ELSE Outcome("return", trace, sig, NoWire, r)

ws_public(r) == NewWS(<<>>, NoSig, r)

ws_private(r) ==
    LET h == JwtHeaders(Dict(<<>>), r)
    IN IF ~h.ok THEN Outcome(h.err, h.trace, Sig(Dict(<<>>), h), NoWire, h.rng)
       ELSE NewWS(h.trace, Sig(Dict(<<>>), h), h.rng)

\* a direct call of _jwt_headers
jwt_headers(params, r) ==
    LET h == JwtHeaders(params, r)
    IN Outcome(IF h.ok THEN "return" ELSE h.err, h.trace, Sig(params, h), NoWire, h.rng)

(***************************************************************************)
(* The state machine.                                                      *)
(***************************************************************************)
\* the values a credential is configured with, and the environment holds
ConfigAccessKeys == {None, "", "AK"}
ConfigSecretKeys == {None, "", "SK"}
EnvAccessKeys == {None, "", "EAK"}
EnvSecretKeys == {None, "", "ESK"}

\* UpbitClient.__init__ (lines 77-90) in a process where the required packages
\* (lines 19-20) are installed
Init ==
    /\ env \in [UPBIT_ACCESS_KEY : EnvAccessKeys, UPBIT_SECRET_KEY : EnvSecretKeys,
                websocket : {TRUE}]
    /\ \E config_access_key \in ConfigAccessKeys, config_secret_key \in ConfigSecretKeys :
          /\ access_key = Or(config_access_key, env.UPBIT_ACCESS_KEY)
          /\ secret_key = Or(config_secret_key, env.UPBIT_SECRET_KEY)
    /\ enable_trading \in BOOLEAN
    /\ rng = 0
    /\ calls = 0
    /\ issued = <<>>
    /\ last = [op |-> "__init__", given |-> NoneParams, result |-> "return",
               trace |-> <<>>, sig |-> NoSig, wire |-> NoWire]
    /\ threads = <<>>

\* the keyword arguments of a wrapper call
Kwargs(items) == Dict(items)

\* what a call leaves behind; given is what the caller passed: the params of
\* _request and _jwt_headers, the keyword arguments of a wrapper
Do(op, given, o) ==
    /\ last' = [op |-> op, given |-> given, result |-> o.result, trace |-> o.trace,
                sig |-> o.sig, wire |-> o.wire]
    /\ issued' = IF o.sig.ok
                 THEN Append(issued, [params |-> o.sig.params,
                                      payload |-> o.sig.payload,
                                      token |-> o.sig.token])
                 ELSE issued
    /\ rng' = o.rng
    /\ calls' = calls + 1
    /\ UNCHANGED <<access_key, secret_key, enable_trading, env, threads>>

\* the mappings the calls of Spec are made with
ReqParams ==
    {NoneParams, Dict(<<>>),
     Dict(<<Item(s_uuids, ListV(<<s_u1, s_u2>>))>>),
     Dict(<<Item(s_a, DictV(<<s_x>>, <<s_1>>))>>)}

JwtHeadersCall ==
    /\ calls < MaxCalls
    /\ \E p \in ReqParams : Do("_jwt_headers", p, jwt_headers(p, rng))

RequestCall ==
    /\ calls < MaxCalls
    /\ \E method \in {"GET", "POST"}, p \in ReqParams, private \in BOOLEAN,
          send_json_for_post \in BOOLEAN, resp \in Responses :
          Do("_request", p, Request(method, p, private, send_json_for_post, resp, rng))

PlaceOrder ==
    /\ calls < MaxCalls
    /\ \E volume \in {NoneV, IntV(1)}, identifier \in {NoneV}, resp \in Responses :
          Do("place_order",
             Kwargs(<<Item(s_volume, volume), Item(s_identifier, identifier)>>),
             place_order(StrV(s_KRW_BTC), StrV(s_bid), StrV(s_limit), volume, NoneV,
                         identifier, NoneV, NoneV, resp, rng))

CancelOrder ==
    /\ calls < MaxCalls
    /\ \E uuid \in {NoneV, StrV(s_u1)}, identifier \in {NoneV}, resp \in Responses :
          Do("cancel_order",
             Kwargs(<<Item(s_uuid, uuid), Item(s_identifier, identifier)>>),
             cancel_order(uuid, identifier, resp, rng))

CancelOrdersBatch ==
    /\ calls < MaxCalls
    /\ \E resp \in Responses :
          Do("cancel_orders_batch", Kwargs(<<Item(s_count, IntV(1))>>),
             cancel_orders_batch(StrV(s_KRW_BTC), IntV(1), StrV(s_desc), resp, rng))

CancelOrdersList ==
    /\ calls < MaxCalls
    /\ \E uuids \in {ListV(<<s_u1, s_u2>>)}, resp \in Responses :
          Do("cancel_orders_list", Kwargs(<<Item(s_uuids, uuids)>>),
             cancel_orders_list(StrV(s_KRW_BTC), uuids, NoneV, resp, rng))

Withdraw ==
    /\ calls < MaxCalls
    /\ \E net_type \in {NoneV}, resp \in Responses :
          Do("withdraw", Kwargs(<<Item(s_net_type, net_type)>>),
             withdraw(StrV(s_BTC), IntV(1), StrV(s_x), net_type, NoneV, resp, rng))

WithdrawKrw ==
    /\ calls < MaxCalls
    /\ \E amount \in {IntV(1)}, resp \in Responses :
          Do("withdraw_krw", Kwargs(<<Item(s_amount, amount)>>),
             withdraw_krw(amount, resp, rng))

WsPublic ==
    /\ calls < MaxCalls
    /\ Do("ws_public", NoneParams, ws_public(rng))

WsPrivate ==
    /\ calls < MaxCalls
    /\ Do("ws_private", NoneParams, ws_private(rng))

Next ==
    \/ JwtHeadersCall
    \/ RequestCall
    \/ PlaceOrder
    \/ CancelOrder
    \/ CancelOrdersBatch
    \/ CancelOrdersList
    \/ Withdraw
    \/ WithdrawKrw
    \/ WsPublic
    \/ WsPrivate

Spec == Init /\ [][Next]_vars

(***************************************************************************)
(* The signed request builder on its own: a client with both credentials   *)
(* signs any two mappings of a generated family.                           *)
(***************************************************************************)
s_1_amp_b_eq_1 == <<"1", "&", "b", "=", "1">>

SeqsUpTo(S, n) == UNION {[1..k -> S] : k \in 0..n}

\* the values of the family: str, int, nested dict, and every list of up to
\* MaxSeqLen elements
CanonValues ==
    {StrV(s_1), StrV(s_1_amp_b_eq_1), IntV(1), DictV(<<s_x>>, <<s_1>>)}
    \cup {ListV(xs) : xs \in SeqsUpTo({s_1, s_2}, MaxSeqLen)}

CanonKeys == {s_a, s_b}

CanonItems == {Item(k, v) : k \in CanonKeys, v \in CanonValues}

\* a dict's keys are distinct
DistinctKeys(items) ==
    \A i, j \in 1..Len(items) : i # j => items[i].k # items[j].k

\* every dict over these keys and values, in every insertion order, and the
\* scenarios of the specification
CanonParams ==
    {Dict(items) : items \in {m \in SeqsUpTo(CanonItems, Cardinality(CanonKeys)) :
                                 DistinctKeys(m)}}
    \cup {Dict(<<Item(s_market, StrV(s_KRW_BTC)), Item(s_side, StrV(s_bid))>>),
          Dict(<<Item(s_side, StrV(s_bid)), Item(s_market, StrV(s_KRW_BTC))>>),
          Dict(<<Item(s_uuids, ListV(<<s_u1, s_u2>>))>>),
          Dict(<<Item(s_uuids, ListV(<<s_u2, s_u1>>))>>)}

InitCanon ==
    /\ env = [UPBIT_ACCESS_KEY |-> None, UPBIT_SECRET_KEY |-> None, websocket |-> TRUE]
    /\ access_key = "AK"
    /\ secret_key = "SK"
    /\ enable_trading = FALSE
    /\ rng = 0
    /\ calls = 0
    /\ issued = <<>>
    /\ last = [op |-> "__init__", given |-> NoneParams, result |-> "return",
               trace |-> <<>>, sig |-> NoSig, wire |-> NoWire]
    /\ threads = <<>>

\* two invocations of _jwt_headers
SignCall ==
    /\ calls < 2
    /\ \E p \in CanonParams : Do("_jwt_headers", p, jwt_headers(p, rng))

NextCanon == SignCall

SpecCanon == InitCanon /\ [][NextCanon]_vars

(***************************************************************************)
(* Properties.                                                             *)
(***************************************************************************)
\* number of times step x occurs in a trace
Count(trace, x) == Cardinality({i \in 1..Len(trace) : trace[i] = x})
\* position of the first x in a trace, 0 when there is none
IndexOf(trace, x) ==
    IF Count(trace, x) = 0 THEN 0
    ELSE CHOOSE i \in 1..Len(trace) : trace[i] = x /\ \A j \in 1..(i - 1) : trace[j] # x

CryptoSteps == {"uuid4", "urlencode", "sha512", "jwt.encode"}

\* a credential value that is absent or the empty string
Absent(x) == x \in {None, ""}

\* C1: whenever _jwt_headers runs on a client whose access_key or secret_key
\* is absent or empty, the call fails with the missing-credentials error
\* having generated no nonce, hashed no query and signed no token, and no
\* header ever issued is signed with an absent or empty key.
C1_MissingCredentialsFailFirst ==
    /\ (last.sig.called /\ (Absent(access_key) \/ Absent(secret_key)))
          => /\ last.result = MissingCredentials
             /\ \A i \in 1..Len(last.trace) :
                   last.trace[i] \notin CryptoSteps \cup {"session.request"}
             /\ ~last.sig.ok
             /\ last.sig.token = NoToken
             /\ rng = 0
    /\ \A i \in 1..Len(issued) :
          /\ ~Absent(issued[i].token.key)
          /\ ~Absent(issued[i].payload["access_key"])

\* C1 witness: a private _request with a non-empty mapping on a client that
\* has an access key and an empty secret key
C1_Witness ==
    /\ last.op = "_request"
    /\ last.sig.called
    /\ Truthy(last.sig.params)
    /\ access_key = "AK"
    /\ secret_key = ""

GuardedOps == {"place_order", "cancel_order", "cancel_orders_batch",
               "cancel_orders_list", "withdraw", "withdraw_krw"}

\* C2: on a client with enable_trading False, each of the six guarded
\* operations fails with the permission error having executed no step at
\* all: no argument validation result, no signing, no transport call.
C2_UnarmedNeverSends ==
    (~enable_trading /\ last.op \in GuardedOps)
       => /\ last.result = PermissionDenied
          /\ last.trace = <<>>
          /\ ~last.sig.called
          /\ ~last.wire.sent

\* C2 witness: cancel_order with neither uuid nor identifier on an unarmed
\* client (the arguments the ValueError check would reject)
C2_Witness ==
    /\ ~enable_trading
    /\ last.op = "cancel_order"
    /\ \A i \in 1..Len(last.given.items) : ~TruthyArg(last.given.items[i].v)

\* the calls that go through _request
RequestOps == GuardedOps \cup {"_request"}

\* C3: a private _request enters _jwt_headers exactly once; when signing
\* succeeds the token is signed once, before the single transport call,
\* which carries that token; when signing fails there is no transport call
\* and the caller gets the signing failure.
C3_SignOnceBeforeTransport ==
    (last.op \in RequestOps /\ last.sig.called)
       => /\ Count(last.trace, "_jwt_headers") = 1
          /\ last.sig.ok
                => /\ Count(last.trace, "jwt.encode") = 1
                   /\ Count(last.trace, "session.request") = 1
                   /\ IndexOf(last.trace, "jwt.encode")
                         < IndexOf(last.trace, "session.request")
                   /\ last.wire.sent
                   /\ last.wire.auth = last.sig.token
          /\ ~last.sig.ok
                => /\ Count(last.trace, "session.request") = 0
                   /\ ~last.wire.sent
                   /\ last.result = MissingCredentials

\* C3 witness: a private _request whose signing failed
C3_Witness ==
    /\ last.op = "_request"
    /\ last.sig.called
    /\ ~last.sig.ok

\* the key/value pairs of a mapping (none for None)
ItemSet(params) == {params.items[i] : i \in 1..Len(params.items)}

\* C4: whenever a private request reaches the transport, the mapping that
\* was signed and the mapping handed to the transport hold the same
\* key/value pairs, and the token carries the content-hash of the canonical
\* string of the transmitted mapping (none when nothing is transmitted).
C4_SignedIsTransmitted ==
    (last.wire.sent /\ last.sig.called)
       => /\ last.sig.ok
          /\ ItemSet(last.sig.params) = ItemSet(last.wire.params)
          /\ last.wire.auth = last.sig.token
          /\ IF ItemSet(last.wire.params) # {}
             THEN /\ "query_hash" \in DOMAIN last.wire.auth.payload
                  /\ last.wire.auth.payload["query_hash"]
                        = Sha512(QueryString(last.wire.params))
             ELSE "query_hash" \notin DOMAIN last.wire.auth.payload

\* C4 witness: a signed POST whose non-empty mapping travels as the JSON body
C4_Witness ==
    /\ last.wire.sent
    /\ last.sig.ok
    /\ last.wire.method = "POST"
    /\ last.wire.via = "json"
    /\ Truthy(last.wire.params)

\* a mapping that holds at least one key
NonEmpty(params) == ~params.isNone /\ Len(params.items) > 0

HasHash(e) == "query_hash" \in DOMAIN e.payload

\* the (key, element text) pairs a mapping puts into its query string
PairSet(params) ==
    UNION {{<<params.items[i].k, Elements(params.items[i].v)[n]>> :
               n \in 1..Len(Elements(params.items[i].v))} :
           i \in 1..Len(params.items)}

AllStr(params) == \A i \in 1..Len(params.items) : params.items[i].v.kind = "str"

\* C5 as stated: any two non-empty mappings that differ in a key or a value
\* get different content-hashes.
C5_HashInjective ==
    \A i, j \in 1..Len(issued) :
       (/\ NonEmpty(issued[i].params)
        /\ NonEmpty(issued[j].params)
        /\ ItemSet(issued[i].params) # ItemSet(issued[j].params))
          => issued[i].payload["query_hash"] # issued[j].payload["query_hash"]

\* C5 amended: two non-empty mappings whose values are all strings and that
\* differ in a key or a value get different content-hashes; and any two
\* non-empty mappings with the same content-hash put the same (key, element
\* text) pairs into the query string.
C5_HashInjectiveOnText ==
    \A i, j \in 1..Len(issued) :
       (NonEmpty(issued[i].params) /\ NonEmpty(issued[j].params))
          => /\ (/\ AllStr(issued[i].params)
                 /\ AllStr(issued[j].params)
                 /\ ItemSet(issued[i].params) # ItemSet(issued[j].params))
                   => issued[i].payload["query_hash"] # issued[j].payload["query_hash"]
             /\ issued[i].payload["query_hash"] = issued[j].payload["query_hash"]
                   => PairSet(issued[i].params) = PairSet(issued[j].params)

\* C5 witness: {a: "1&b=1"} and {a: "1", b: "1"} were both signed
C5_Witness ==
    /\ Len(issued) = 2
    /\ issued[1].params = Dict(<<Item(s_a, StrV(s_1_amp_b_eq_1))>>)
    /\ issued[2].params = Dict(<<Item(s_a, StrV(s_1)), Item(s_b, StrV(s_1))>>)

ClaimFields == {"access_key", "nonce", "query_hash", "query_hash_alg"}

\* C6: every claims object holds access_key and nonce, holds query_hash and
\* query_hash_alg exactly when the mapping signed is non-empty, holds
\* nothing else, and its query_hash_alg is "SHA512"; for an empty or absent
\* mapping the two fields are not in the object at all.
C6_ClaimsFields ==
    \A i \in 1..Len(issued) :
       LET e == issued[i]
           fields == DOMAIN e.payload
       IN /\ {"access_key", "nonce"} \subseteq fields
          /\ fields \subseteq ClaimFields
          /\ e.payload["access_key"] = access_key
          /\ ("query_hash" \in fields) <=> NonEmpty(e.params)
          /\ ("query_hash_alg" \in fields) <=> NonEmpty(e.params)
          /\ ("query_hash_alg" \in fields) => e.payload["query_hash_alg"] = "SHA512"

\* C6 witness: ws_private signed the empty mapping
C6_Witness ==
    /\ last.op = "ws_private"
    /\ last.sig.ok
    /\ last.sig.params = Dict(<<>>)

q_market_side ==
    <<"m", "a", "r", "k", "e", "t", "=", "K", "R", "W", "-", "B", "T", "C", "&",
      "s", "i", "d", "e", "=", "b", "i", "d">>

\* C7: two mappings with the same key/value pairs, whatever the insertion
\* order of their keys, get the same canonical string and content-hash; and
\* {market: KRW-BTC, side: bid} in either order hashes
\* market=KRW-BTC&side=bid.
C7_OrderIndependent ==
    /\ \A i, j \in 1..Len(issued) :
          (NonEmpty(issued[i].params)
             /\ ItemSet(issued[i].params) = ItemSet(issued[j].params))
             => issued[i].payload["query_hash"] = issued[j].payload["query_hash"]
    /\ \A i \in 1..Len(issued) :
          ItemSet(issued[i].params)
             = {Item(s_market, StrV(s_KRW_BTC)), Item(s_side, StrV(s_bid))}
             => issued[i].payload["query_hash"] = Sha512(q_market_side)

\* C7 witness: the scenario signed side-first and then market-first
C7_Witness ==
    /\ Len(issued) = 2
    /\ issued[1].params
          = Dict(<<Item(s_side, StrV(s_bid)), Item(s_market, StrV(s_KRW_BTC))>>)
    /\ issued[2].params
          = Dict(<<Item(s_market, StrV(s_KRW_BTC)), Item(s_side, StrV(s_bid))>>)

\* the pieces of a query string between the "&"s, as a receiver splits it
RECURSIVE SplitAmp(_, _)
SplitAmp(q, piece) ==
    IF q = <<>> THEN (IF piece = <<>> THEN <<>> ELSE <<piece>>)
    ELSE IF Head(q) = "&" THEN <<piece>> \o SplitAmp(Tail(q), <<>>)
    ELSE SplitAmp(Tail(q), Append(piece, Head(q)))

\* the text of a piece before its first "="
RECURSIVE KeyOfPiece(_)
KeyOfPiece(piece) ==
    IF piece = <<>> \/ Head(piece) = "=" THEN <<>>
    ELSE <<Head(piece)>> \o KeyOfPiece(Tail(piece))

q_uuids_u1_u2 ==
    <<"u", "u", "i", "d", "s", "=", "u", "1", "&", "u", "u", "i", "d", "s", "=", "u", "2">>
q_uuids_u2_u1 ==
    <<"u", "u", "i", "d", "s", "=", "u", "2", "&", "u", "u", "i", "d", "s", "=", "u", "1">>

\* C8: for every key whose value is a sequence, the hashed query string
\* holds exactly one key=element piece per element, next to each other and
\* in the sequence's order; {uuids: [u1, u2]} hashes uuids=u1&uuids=u2 and
\* {uuids: [u2, u1]} hashes uuids=u2&uuids=u1.
C8_SequenceAsRepeatedPairs ==
    \A i \in 1..Len(issued) :
       NonEmpty(issued[i].params) =>
          LET items == issued[i].params.items
              q == issued[i].payload["query_hash"].of
              pieces == SplitAmp(q, <<>>)
          IN /\ \A m \in 1..Len(items) :
                   items[m].v.kind = "list" =>
                      LET xs == items[m].v.items
                          at == {n \in 1..Len(pieces) : KeyOfPiece(pieces[n]) = items[m].k}
                      IN /\ Cardinality(at) = Len(xs)
                         /\ \A n \in at :
                               \E o \in at :
                                  /\ \A n2 \in at : o <= n2
                                  /\ n - o + 1 \in 1..Len(xs)
                                  /\ pieces[n] = items[m].k \o <<"=">> \o xs[n - o + 1]
             /\ items = <<Item(s_uuids, ListV(<<s_u1, s_u2>>))>> => q = q_uuids_u1_u2
             /\ items = <<Item(s_uuids, ListV(<<s_u2, s_u1>>))>> => q = q_uuids_u2_u1

\* C8 witness: {uuids: [u2, u1]}, a sequence that is not in sorted order,
\* was signed
C8_Witness ==
    /\ last.sig.ok
    /\ last.sig.params = Dict(<<Item(s_uuids, ListV(<<s_u2, s_u1>>))>>)

\* C9: any two invocations of _jwt_headers carry different nonces and
\* different tokens; when they were given the same mapping they carry the
\* same access_key and the same content-hash, or both carry none.
C9_FreshNoncePerCall ==
    \A i, j \in 1..Len(issued) :
       i # j =>
          /\ issued[i].payload["nonce"] # issued[j].payload["nonce"]
          /\ issued[i].token # issued[j].token
          /\ issued[i].params = issued[j].params
                => /\ issued[i].payload["access_key"] = issued[j].payload["access_key"]
                   /\ HasHash(issued[i]) <=> HasHash(issued[j])
                   /\ HasHash(issued[i])
                         => issued[i].payload["query_hash"]
                               = issued[j].payload["query_hash"]

\* C9 witness: the same non-empty mapping was signed twice
C9_Witness ==
    /\ Len(issued) = 2
    /\ issued[1].params = issued[2].params
    /\ NonEmpty(issued[1].params)

HasNested(params) == \E i \in 1..Len(params.items) : params.items[i].v.kind = "dict"

\* C10 as stated: on a client with both credentials, signing a mapping that
\* holds a nested mapping fails with an encoding failure, returns no header
\* and puts nothing on the wire.
C10_NestedValueRejected ==
    (/\ last.sig.called
     /\ HasNested(last.sig.params)
     /\ ~Absent(access_key)
     /\ ~Absent(secret_key))
       => /\ last.result = "EncodingFailure"
          /\ ~last.sig.ok
          /\ ~last.wire.sent

(***************************************************************************)
(* One client called from several threads.  Each thread makes one call, a  *)
(* direct _jwt_headers or a private GET through _request, and runs it one  *)
(* statement at a time; the threads interleave between statements.  A      *)
(* thread's record holds what belongs to its call (pc, op, params, the     *)
(* nonce uuid4 gave it, what it got back) and the local variables of the   *)
(* call (payload, token, headers).                                         *)
(***************************************************************************)
\* number of threads calling the client
NThreads == 2

Threads == 1..NThreads

p_market == Dict(<<Item(s_market, StrV(s_KRW_BTC))>>)

\* the mappings the concurrent calls are made with
ConcParams == {Dict(<<>>), p_market, Dict(<<Item(s_uuids, ListV(<<s_u1, s_u2>>))>>)}

Idle == [pc |-> "idle", op |-> "", params |-> NoneParams, nonce |-> [uuid |-> 0],
         result |-> "", ret |-> NoToken, wire |-> NoWire,
         payload |-> NoPayload, token |-> NoToken, headers |-> NoToken]

\* every call's locals in one place, as attributes of the client would be
FrameOnClient(t) == 1

\* where the local variables of thread t's call live: in its own frame
\* (payload, line 97; token, line 110; headers, line 129)
Frame(t) == t

InitConc ==
    /\ env = [UPBIT_ACCESS_KEY |-> None, UPBIT_SECRET_KEY |-> None, websocket |-> TRUE]
    /\ access_key = "AK"
    /\ secret_key \in {"SK", ""}
    /\ enable_trading = FALSE
    /\ rng = 0
    /\ calls = 0
    /\ issued = <<>>
    /\ last = [op |-> "__init__", given |-> NoneParams, result |-> "return",
               trace |-> <<>>, sig |-> NoSig, wire |-> NoWire]
    /\ threads = [t \in Threads |-> Idle]

Client == <<access_key, secret_key, enable_trading, env>>

\* the mapping thread t's call signs: params itself, or "params or {}" in _request
Signs(t) ==
    IF threads[t].op = "_request" THEN SignedMapping(threads[t].params)
    ELSE threads[t].params

\* thread t enters _jwt_headers, directly or through lines 129-131 of _request
Enter(t) ==
    /\ threads[t].pc = "idle"
    /\ \E op \in {"_jwt_headers", "_request"}, p \in ConcParams :
          threads' = [threads EXCEPT ![Frame(t)].headers = NoToken,
                                     ![t].op = op, ![t].params = p, ![t].pc = "94"]
    /\ calls' = calls + 1
    /\ UNCHANGED <<Client, rng, issued, last>>

\* line 94-95
CheckCredentials(t) ==
    /\ threads[t].pc = "94"
    /\ threads' = IF CredentialsMissing
                  THEN [threads EXCEPT ![t].result = MissingCredentials, ![t].pc = "done"]
                  ELSE [threads EXCEPT ![t].pc = "97"]
    /\ UNCHANGED <<Client, rng, calls, issued, last>>

\* lines 97-100
BuildPayload(t) ==
    /\ threads[t].pc = "97"
    /\ threads' = [threads EXCEPT
                      ![Frame(t)].payload = ("access_key" :> access_key)
                                            @@ ("nonce" :> Uuid4(rng)),
                      ![t].nonce = Uuid4(rng), ![t].pc = "101"]
    /\ rng' = rng + 1
    /\ UNCHANGED <<Client, calls, issued, last>>

\* lines 101-109
HashQuery(t) ==
    /\ threads[t].pc = "101"
    /\ threads' = IF HashesQuery(Signs(t))
                  THEN [threads EXCEPT
                           ![Frame(t)].payload =
                               Update(threads[Frame(t)].payload,
                                      ("query_hash" :> Sha512(QueryString(Signs(t))))
                                      @@ ("query_hash_alg" :> "SHA512")),
                           ![t].pc = "110"]
                  ELSE [threads EXCEPT ![t].pc = "110"]
    /\ UNCHANGED <<Client, rng, calls, issued, last>>

\* line 110
SignToken(t) ==
    /\ threads[t].pc = "110"
    /\ threads' = [threads EXCEPT
                      ![Frame(t)].token = JwtEncode(threads[Frame(t)].payload, secret_key),
                      ![t].pc = "111"]
    /\ UNCHANGED <<Client, rng, calls, issued, last>>

\* line 111, and for _request the headers.update of line 131
ReturnHeaders(t) ==
    /\ threads[t].pc = "111"
    /\ threads' = IF threads[t].op = "_request"
                  THEN [threads EXCEPT ![Frame(t)].headers = threads[Frame(t)].token,
                                       ![t].pc = "135"]
                  ELSE [threads EXCEPT ![t].ret = threads[Frame(t)].token,
                                       ![t].result = "return", ![t].pc = "done"]
    /\ issued' = Append(issued, [params |-> Signs(t),
                                 payload |-> threads[Frame(t)].token.payload,
                                 token |-> threads[Frame(t)].token])
    /\ UNCHANGED <<Client, rng, calls, last>>

\* lines 134-165
Send(t) ==
    /\ threads[t].pc = "135"
    /\ \E resp \in Responses :
          threads' = [threads EXCEPT
                         ![t].wire = Transport("GET", threads[t].params, TRUE,
                                               threads[Frame(t)].headers),
                         ![t].ret = threads[Frame(t)].headers,
                         ![t].result = Answer(resp), ![t].pc = "done"]
    /\ UNCHANGED <<Client, rng, calls, issued, last>>

NextConc ==
    \E t \in Threads :
       \/ Enter(t)
       \/ CheckCredentials(t)
       \/ BuildPayload(t)
       \/ HashQuery(t)
       \/ SignToken(t)
       \/ ReturnHeaders(t)
       \/ Send(t)

SpecConc == InitConc /\ [][NextConc]_vars

(***************************************************************************)
(* C11  Concurrent calls on one client                                     *)
(***************************************************************************)
\* the token a call must get from its own mapping, its own nonce and the
\* client's credential pair
OwnToken(t) ==
    LET base == ("access_key" :> access_key) @@ ("nonce" :> threads[t].nonce)
        own == IF threads[t].op = "_request" THEN OrEmpty(threads[t].params)
               ELSE threads[t].params
    IN JwtEncode(IF NonEmpty(own)
                 THEN ("query_hash" :> Sha512(QueryString(own)))
                      @@ ("query_hash_alg" :> "SHA512") @@ base
                 ELSE base,
                 secret_key)

Finished(t) == threads[t].pc = "done"

Signed(t) == Finished(t) /\ threads[t].result # MissingCredentials

\* C11: under every interleaving of the threads' statements, a finished call
\* got the header made of its own mapping, its own nonce and the client's
\* credential pair, and a private request sent exactly that header; no two
\* calls got the same nonce; a call refused for missing credentials got
\* nothing; and no step of any call writes the client's attributes.
C11_CallsDoNotInterfere ==
    /\ [](\A t \in Threads :
            /\ Signed(t) => /\ threads[t].ret = OwnToken(t)
                            /\ threads[t].op = "_request"
                                  => /\ threads[t].wire.sent
                                     /\ threads[t].wire.auth = OwnToken(t)
                                     /\ threads[t].wire.params = threads[t].params
            /\ Finished(t) /\ ~Signed(t) => /\ threads[t].ret = NoToken
                                            /\ ~threads[t].wire.sent
            /\ \A u \in Threads :
                  t # u /\ Signed(t) /\ Signed(u) => threads[t].nonce # threads[u].nonce)
    /\ [][UNCHANGED <<access_key, secret_key, enable_trading, env>>]_vars

\* C11 witness: two calls with different non-empty mappings overlapped (the
\* first thread drew its nonce first, the second returned first) and a
\* private request among them was sent
C11_Witness ==
    /\ Signed(1) /\ Signed(2)
    /\ threads[1].nonce = [uuid |-> 1]
    /\ Len(issued) >= 2 /\ issued[1].token = threads[2].ret
    /\ NonEmpty(threads[1].params) /\ NonEmpty(threads[2].params)
    /\ threads[1].params # threads[2].params
    /\ threads[1].op = "_request" /\ threads[1].wire.sent

(***************************************************************************)
(* The client in a process whose environment changes after construction.   *)
(* The initial state is the one __init__ leaves, with the constructor's    *)
(* keyword arguments on record; afterwards any client operation may run    *)
(* and the process may assign UPBIT_ACCESS_KEY or UPBIT_SECRET_KEY.        *)
(***************************************************************************)
s_access_key == <<"a", "c", "c", "e", "s", "s", "_", "k", "e", "y">>
s_secret_key == <<"s", "e", "c", "r", "e", "t", "_", "k", "e", "y">>

\* a credential as a keyword-argument value (a non-empty text is one unit)
CredV(x) == IF x = None THEN NoneV ELSE IF x = "" THEN StrV(<<>>) ELSE StrV(<<x>>)

\* UpbitClient(access_key=..., secret_key=...), lines 77-82
InitEnv ==
    /\ env \in [UPBIT_ACCESS_KEY : EnvAccessKeys, UPBIT_SECRET_KEY : EnvSecretKeys,
                websocket : {TRUE}]
    /\ \E config_access_key \in ConfigAccessKeys, config_secret_key \in ConfigSecretKeys :
          /\ access_key = Or(config_access_key, env.UPBIT_ACCESS_KEY)
          /\ secret_key = Or(config_secret_key, env.UPBIT_SECRET_KEY)
          /\ last = [op |-> "__init__",
                     given |-> Kwargs(<<Item(s_access_key, CredV(config_access_key)),
                                        Item(s_secret_key, CredV(config_secret_key))>>),
                     result |-> "return", trace |-> <<>>, sig |-> NoSig, wire |-> NoWire]
    /\ enable_trading \in BOOLEAN
    /\ rng = 0
    /\ calls = 0
    /\ issued = <<>>
    /\ threads = <<>>

EnvNames == {"UPBIT_ACCESS_KEY", "UPBIT_SECRET_KEY"}

EnvValues(name) == IF name = "UPBIT_ACCESS_KEY" THEN EnvAccessKeys ELSE EnvSecretKeys

\* an assignment to the environment that the client would pick up, had it
\* looked the credentials up at each use
SetEnvSeenByClient ==
    /\ calls < MaxCalls
    /\ \E name \in EnvNames : \E v \in EnvValues(name) :
          /\ v # env[name]
          /\ env' = [env EXCEPT ![name] = v]
          /\ access_key' = IF name = "UPBIT_ACCESS_KEY" THEN v ELSE access_key
          /\ secret_key' = IF name = "UPBIT_SECRET_KEY" THEN v ELSE secret_key
    /\ last' = [last EXCEPT !.op = "os.environ"]
    /\ calls' = calls + 1
    /\ UNCHANGED <<enable_trading, rng, issued, threads>>

\* os.environ[name] = v (or its removal) somewhere in the process, after the
\* client was constructed: os.getenv was evaluated at lines 81-82 and the
\* client holds the values it returned
SetEnv ==
    /\ calls < MaxCalls
    /\ \E name \in EnvNames : \E v \in EnvValues(name) :
          /\ v # env[name]
          /\ env' = [env EXCEPT ![name] = v]
    /\ last' = [last EXCEPT !.op = "os.environ"]
    /\ calls' = calls + 1
    /\ UNCHANGED <<access_key, secret_key, enable_trading, rng, issued, threads>>

NextEnv ==
    \/ JwtHeadersCall
    \/ RequestCall
    \/ PlaceOrder
    \/ CancelOrder
    \/ CancelOrdersBatch
    \/ CancelOrdersList
    \/ Withdraw
    \/ WithdrawKrw
    \/ WsPublic
    \/ WsPrivate
    \/ SetEnv

SpecEnv == InitEnv /\ [][NextEnv]_vars

(***************************************************************************)
(* C12  The credential pair is resolved once, at construction              *)
(***************************************************************************)
\* the credential a keyword argument of the constructor carried
Arg(given, k) ==
    LET i == CHOOSE j \in 1..Len(given.items) : given.items[j].k = k
        v == given.items[i].v
    IN IF v.kind = "none" THEN None ELSE IF v.s = <<>> THEN "" ELSE v.s[1]

\* C12: right after construction each credential is the explicit
\* configuration value when that is given and non-empty, the environment
\* variable otherwise; no step (signing, a request method, a WebSocket
\* helper, a change of the environment) changes access_key or secret_key;
\* and every token issued carries the client's access_key and is signed
\* with its secret_key, whatever the environment holds by then.
C12_CredentialsResolvedOnce ==
    /\ [](last.op = "__init__"
            => /\ access_key = (IF Arg(last.given, s_access_key) \in {None, ""}
                                THEN env.UPBIT_ACCESS_KEY
                                ELSE Arg(last.given, s_access_key))
               /\ secret_key = (IF Arg(last.given, s_secret_key) \in {None, ""}
                                THEN env.UPBIT_SECRET_KEY
                                ELSE Arg(last.given, s_secret_key)))
    /\ [][access_key' = access_key /\ secret_key' = secret_key]_vars
    /\ [](\A i \in 1..Len(issued) :
             /\ issued[i].token.key = secret_key
             /\ issued[i].payload["access_key"] = access_key)

\* C12 witness: a header was signed after the environment changed, while the
\* environment held other credentials than the ones signed with
C12_Witness ==
    /\ calls = 2
    /\ Len(issued) = 1
    /\ last.sig.ok
    /\ env.UPBIT_SECRET_KEY # secret_key
    /\ env.UPBIT_SECRET_KEY = "ESK"
    /\ issued[1].token.key = secret_key

====
